---- MODULE Spec2Model ----
(***************************************************************************)
(* Model of scripts/set_github_secrets.py: main() reads the configuration  *)
(* from the environment and, for every configured secret, calls            *)
(* set_secret(), which fetches the repository's public key (GET), encrypts *)
(* the value in a sealed box and uploads it (PUT).                         *)
(*                                                                         *)
(* The remote API, the network and the sealed box's ephemeral key are the  *)
(* environment: each is a nondeterministic choice at the step that uses    *)
(* it.  `calls' and `output' record the requests sent and the lines        *)
(* printed; they are written only by the statements that send or print.    *)
(***************************************************************************)
EXTENDS Integers, Sequences, FiniteSets, TLC

\* Largest number of entries of the secrets mapping that a run loops over.
MaxSecrets == 3

\* os.getenv() gives None for an unset variable.
NONE == "<None>"

\* The keys of main()'s `secrets' dict, in insertion order.
SecretNames ==
    << "ANTHROPIC_API_KEY", "SLACK_BOT_TOKEN", "SLACK_SIGNING_SECRET",
       "SLACK_INBOX_CHANNEL_ID", "SLACK_WEEKLY_CHANNEL_ID",
       "SLACK_MONTHLY_CHANNEL_ID", "SLACK_USER_ID" >>

\* What os.getenv() can give for the three kinds of variable.
RepoValues   == {NONE, "", "owner/repo"}
TokenValues  == {NONE, "", "tok"}
SecretValues == {NONE, "", "x"}

\* JSON bodies the public-key endpoint can answer with: two well-formed
\* keys, a body without "key", one without "key_id", an error body with
\* neither, and a "key" that is not the base64 of a public key.
KeyResponses ==
    { [key |-> "b64:K1", key_id |-> "id1"],
      [key |-> "b64:K2", key_id |-> "id2"],
      [key_id |-> "id1"],
      [key |-> "b64:K1"],
      [message |-> "Bad credentials"],
      [key |-> "not-a-key", key_id |-> "id1"] }

\* Status and text of the answers the secret endpoint can give to the PUT.
PutResponses ==
    { [status_code |-> 201, text |-> ""],
      [status_code |-> 204, text |-> ""],
      [status_code |-> 200, text |-> "OK"],
      [status_code |-> 202, text |-> "Accepted"],
      [status_code |-> 403, text |-> "Forbidden"] }

\* Ephemeral key pairs a sealed box can draw for one encryption.
Ephemerals == {"e1", "e2"}

NoValue == [none |-> TRUE]

VARIABLES
    repo,             \* os.getenv("GITHUB_REPO")
    token,            \* os.getenv("GITHUB_TOKEN")
    secrets,          \* the values of the secrets dict, in insertion order
    pc,               \* the statement the process is at
    idx,              \* position of the for loop in secrets.items()
    success_count,    \* main's counter
    key_data,         \* set_secret: key_response.json()
    encrypted_value,  \* set_secret: result of encrypt_secret
    response,         \* set_secret: answer to the PUT
    ret,              \* set_secret's return value
    calls,            \* the HTTP requests sent so far
    output,           \* the lines printed so far
    exitCode,         \* the process's exit status, -1 while running
    fault             \* the statement whose exception ended the run

vars == << repo, token, secrets, pc, idx, success_count, key_data,
           encrypted_value, response, ret, calls, output, exitCode, fault >>

\* Python truth value of an os.getenv() result: None and "" are false.
Truthy_noneOnly(v) == v # NONE
Truthy(v) == v # NONE /\ v # ""

\* main: `if not repo or not token'.
ConfigMissing_and(r, t) == (~Truthy(r)) /\ (~Truthy(t))
ConfigMissing(r, t) == (~Truthy(r)) \/ (~Truthy(t))

\* set_secret: `response.status_code in [201, 204]'.
IsSuccess_any2xx(status_code) == status_code >= 200 /\ status_code < 300
IsSuccess(status_code) == status_code \in {201, 204}

\* public.PublicKey(public_key.encode(), Base64Encoder()): the decoded key,
\* or a raised error for a string that is not the base64 of a key.
IsBase64Key(public_key) == public_key \in {"b64:K1", "b64:K2"}
Base64DecodeKey(public_key) ==
    IF public_key = "b64:K1" THEN "K1" ELSE "K2"

\* base64.b64encode(...).decode("utf-8")
B64Encode(bytes) == [b64 |-> bytes]

\* encrypt_secret: a sealed box for the decoded key over the value, made
\* with a fresh ephemeral key e, returned base64-encoded.
encrypt_secret(public_key, secret_value, e) ==
    B64Encode([recipient |-> Base64DecodeKey(public_key),
               plaintext |-> secret_value,
               ephemeral |-> e])

\* The JSON body of the PUT.
PutBody(kd, ev) == [encrypted_value |-> ev, key_id |-> kd.key_id]

\* The last line main prints.
SummaryLine_attempted(count, secs) ==
    [kind |-> "summary", n |-> count,
     total |-> Cardinality({i \in 1..Len(secs) : Truthy(secs[i])})]
SummaryLine(count, secs) ==
    [kind |-> "summary", n |-> count, total |-> Len(secs)]

Init ==
    /\ repo \in RepoValues
    /\ token \in TokenValues
    /\ \E n \in 1..MaxSecrets : secrets \in [1..n -> SecretValues]
    /\ pc = "main"
    /\ idx = 0
    /\ success_count = 0
    /\ key_data = NoValue
    /\ encrypted_value = NoValue
    /\ response = NoValue
    /\ ret = FALSE
    /\ calls = << >>
    /\ output = << >>
    /\ exitCode = -1
    /\ fault = "none"

\* main, up to the loop: the configuration check and success_count = 0.
CheckConfig ==
    /\ pc = "main"
    /\ IF ConfigMissing(repo, token)
       THEN /\ output' = Append(output, [kind |-> "error"])
            /\ pc' = "exited"
            /\ exitCode' = 1
            /\ UNCHANGED idx
       ELSE /\ pc' = "loop"
            /\ idx' = 1
            /\ UNCHANGED << output, exitCode >>
    /\ UNCHANGED << repo, token, secrets, success_count, key_data,
                    encrypted_value, response, ret, calls, fault >>

\* for name, value in secrets.items(): a true value calls set_secret.
CallSetSecret ==
    /\ pc = "loop"
    /\ idx <= Len(secrets)
    /\ Truthy(secrets[idx])
    /\ pc' = "get"
    /\ UNCHANGED << repo, token, secrets, idx, success_count, key_data,
                    encrypted_value, response, ret, calls, output,
                    exitCode, fault >>

\* ... and any other value prints the skip line.
Skip ==
    /\ pc = "loop"
    /\ idx <= Len(secrets)
    /\ ~Truthy(secrets[idx])
    /\ output' = Append(output, [kind |-> "skip", name |-> SecretNames[idx]])
    /\ idx' = idx + 1
    /\ UNCHANGED << repo, token, secrets, pc, success_count, key_data,
                    encrypted_value, response, ret, calls, exitCode, fault >>

\* An exception nothing catches: traceback, exit status 1.
Raise(at) ==
    /\ pc' = "crashed"
    /\ fault' = at
    /\ exitCode' = 1

\* A variant that fetches the key once and keeps it for the later secrets.
GetKey_cached ==
    /\ pc = "get"
    /\ IF key_data # NoValue
       THEN /\ pc' = "encrypt"
            /\ UNCHANGED << key_data, calls, exitCode, fault >>
       ELSE \E kd \in KeyResponses :
            /\ calls' = Append(calls, [method |-> "GET", name |-> SecretNames[idx],
                                       repo |-> repo, token |-> token,
                                       raised |-> FALSE, json |-> kd])
            /\ key_data' = kd
            /\ pc' = "encrypt"
            /\ UNCHANGED << exitCode, fault >>
    /\ UNCHANGED << repo, token, secrets, idx, success_count,
                    encrypted_value, response, ret, output >>

\* set_secret: requests.get(...) and key_response.json().  The request can
\* raise, the body can fail to parse, or key_data is the parsed body.
GetKey ==
    /\ pc = "get"
    /\ \/ /\ calls' = Append(calls, [method |-> "GET", name |-> SecretNames[idx],
                                     repo |-> repo, token |-> token,
                                     raised |-> TRUE])
          /\ Raise("get")
          /\ UNCHANGED key_data
       \/ /\ calls' = Append(calls, [method |-> "GET", name |-> SecretNames[idx],
                                     repo |-> repo, token |-> token,
                                     raised |-> FALSE, json |-> NoValue])
          /\ Raise("json")
          /\ UNCHANGED key_data
       \/ \E kd \in KeyResponses :
          /\ calls' = Append(calls, [method |-> "GET", name |-> SecretNames[idx],
                                     repo |-> repo, token |-> token,
                                     raised |-> FALSE, json |-> kd])
          /\ key_data' = kd
          /\ pc' = "encrypt"
          /\ UNCHANGED << exitCode, fault >>
    /\ UNCHANGED << repo, token, secrets, idx, success_count,
                    encrypted_value, response, ret, output >>

\* A variant that reports a missing "key" as a failure of this one secret.
Encrypt_handled ==
    /\ pc = "encrypt"
    /\ IF "key" \notin DOMAIN key_data
       THEN /\ output' = Append(output, [kind |-> "fail", name |-> SecretNames[idx],
                                         status_code |-> 0, text |-> "KeyError"])
            /\ ret' = FALSE
            /\ pc' = "returned"
            /\ UNCHANGED << encrypted_value, exitCode, fault >>
       ELSE IF ~IsBase64Key(key_data.key)
       THEN /\ Raise("encrypt")
            /\ UNCHANGED << encrypted_value, ret, output >>
       ELSE /\ \E e \in Ephemerals :
                 encrypted_value' = encrypt_secret(key_data.key, secrets[idx], e)
            /\ pc' = "put"
            /\ UNCHANGED << exitCode, fault, ret, output >>
    /\ UNCHANGED << repo, token, secrets, idx, success_count, key_data,
                    response, calls >>

\* set_secret: encrypted_value = encrypt_secret(key_data["key"], secret_value)
Encrypt ==
    /\ pc = "encrypt"
    /\ IF "key" \notin DOMAIN key_data
       THEN /\ Raise("key")
            /\ UNCHANGED encrypted_value
       ELSE IF ~IsBase64Key(key_data.key)
       THEN /\ Raise("encrypt")
            /\ UNCHANGED encrypted_value
       ELSE /\ \E e \in Ephemerals :
                 encrypted_value' = encrypt_secret(key_data.key, secrets[idx], e)
            /\ pc' = "put"
            /\ UNCHANGED << exitCode, fault >>
    /\ UNCHANGED << repo, token, secrets, idx, success_count, key_data,
                    response, ret, calls, output >>

\* set_secret: requests.put(...).  The body is built first, so a key_data
\* without "key_id" raises before anything is sent.
Put ==
    /\ pc = "put"
    /\ IF "key_id" \notin DOMAIN key_data
       THEN /\ Raise("key_id")
            /\ UNCHANGED << calls, response >>
       ELSE \/ /\ calls' = Append(calls, [method |-> "PUT", name |-> SecretNames[idx],
                                          repo |-> repo, token |-> token,
                                          body |-> PutBody(key_data, encrypted_value),
                                          raised |-> TRUE])
               /\ Raise("put")
               /\ UNCHANGED response
            \/ \E r \in PutResponses :
               /\ calls' = Append(calls, [method |-> "PUT", name |-> SecretNames[idx],
                                          repo |-> repo, token |-> token,
                                          body |-> PutBody(key_data, encrypted_value),
                                          raised |-> FALSE, response |-> r])
               /\ response' = r
               /\ pc' = "classify"
               /\ UNCHANGED << exitCode, fault >>
    /\ UNCHANGED << repo, token, secrets, idx, success_count, key_data,
                    encrypted_value, ret, output >>

\* set_secret: the status check, the printed line and the return value.
Classify ==
    /\ pc = "classify"
    /\ IF IsSuccess(response.status_code)
       THEN /\ output' = Append(output, [kind |-> "ok", name |-> SecretNames[idx]])
            /\ ret' = TRUE
       ELSE /\ output' = Append(output, [kind |-> "fail", name |-> SecretNames[idx],
                                         status_code |-> response.status_code,
                                         text |-> response.text])
            /\ ret' = FALSE
    /\ pc' = "returned"
    /\ UNCHANGED << repo, token, secrets, idx, success_count, key_data,
                    encrypted_value, response, calls, exitCode, fault >>

\* A variant that counts every call of set_secret.
Count_always ==
    /\ pc = "returned"
    /\ success_count' = success_count + 1
    /\ idx' = idx + 1
    /\ pc' = "loop"
    /\ UNCHANGED << repo, token, secrets, key_data, encrypted_value,
                    response, ret, calls, output, exitCode, fault >>

\* main: `if set_secret(...): success_count += 1', then the next item.
Count ==
    /\ pc = "returned"
    /\ success_count' = IF ret THEN success_count + 1 ELSE success_count
    /\ idx' = idx + 1
    /\ pc' = "loop"
    /\ UNCHANGED << repo, token, secrets, key_data, encrypted_value,
                    response, ret, calls, output, exitCode, fault >>

\* main: the summary line after the loop, and the return from main.
Summary ==
    /\ pc = "loop"
    /\ idx > Len(secrets)
    /\ output' = Append(output, SummaryLine(success_count, secrets))
    /\ pc' = "exited"
    /\ exitCode' = 0
    /\ UNCHANGED << repo, token, secrets, idx, success_count, key_data,
                    encrypted_value, response, ret, calls, fault >>

Next ==
    \/ CheckConfig
    \/ CallSetSecret
    \/ Skip
    \/ GetKey
    \/ Encrypt
    \/ Put
    \/ Classify
    \/ Count
    \/ Summary

Spec == Init /\ [][Next]_vars

----------------------------------------------------------------------------
(* Vocabulary of the properties, read off the recorded requests and lines. *)

\* An environment value that is unset or empty.
Unset(v) == v = NONE \/ v = ""

\* Position of a secret name in the configured order.
PosOf(name) == CHOOSE i \in 1..Len(SecretNames) : SecretNames[i] = name

\* A line of the given kind ("ok", "fail" or "skip") was printed for secret i.
HasLine(kind, i) ==
    \E k \in 1..Len(output) :
        output[k].kind = kind /\ output[k].name = SecretNames[i]

\* The requests of the given method sent while secret i was processed.
CallsFor(method, i) ==
    {k \in 1..Len(calls) :
        calls[k].method = method /\ calls[k].name = SecretNames[i]}

SummaryPrinted == \E k \in 1..Len(output) : output[k].kind = "summary"

Terminated == pc \in {"exited", "crashed"}

ConfigPresent == ~Unset(repo) /\ ~Unset(token)

\* Secret i has a value and its PUT was answered 201 or 204.
Succeeded(i) ==
    /\ ~Unset(secrets[i])
    /\ \E k \in CallsFor("PUT", i) :
          /\ ~calls[k].raised
          /\ calls[k].response.status_code \in {201, 204}

\* Secret i reached an outcome line.
HasOutcome(i) == HasLine("skip", i) \/ HasLine("ok", i) \/ HasLine("fail", i)

\* The GET at position k failed or its body lacks "key" or "key_id".
BadFetch(k) ==
    /\ calls[k].method = "GET"
    /\ \/ calls[k].raised
       \/ "key" \notin DOMAIN calls[k].json
       \/ "key_id" \notin DOMAIN calls[k].json

----------------------------------------------------------------------------
\* C1: with GITHUB_REPO or GITHUB_TOKEN unset or empty, the run sends no
\* request at all, never enters the loop, and ends with a nonzero status.
C1_ConfigMissingExits ==
    (Unset(repo) \/ Unset(token)) =>
        /\ calls = << >>
        /\ pc \in {"main", "exited"}
        /\ pc = "exited" => exitCode # 0

\* C1 witness: only the token is missing and the run has exited with 1.
C1_Witness ==
    /\ ~Unset(repo) /\ Unset(token)
    /\ pc = "exited" /\ exitCode = 1 /\ calls = << >>

\* C2: a secret whose value is empty or unset gets no GET and no PUT, no
\* success line and no failure line, a skip line once the loop is past it,
\* and the counter never exceeds the number of success lines printed.
C2_SkippedNeverSent ==
    \A i \in 1..Len(secrets) :
        Unset(secrets[i]) =>
            /\ CallsFor("GET", i) = {}
            /\ CallsFor("PUT", i) = {}
            /\ ~HasLine("ok", i)
            /\ ~HasLine("fail", i)
            /\ idx > i => HasLine("skip", i)
            /\ success_count <=
                 Cardinality({j \in 1..Len(secrets) : HasLine("ok", j)})

\* C2 witness: an empty secret was skipped in a finished run that sent
\* requests for another secret.
C2_Witness ==
    /\ pc = "exited" /\ exitCode = 0
    /\ calls # << >>
    /\ \E i \in 1..Len(secrets) : secrets[i] = "" /\ HasLine("skip", i)

\* C3: the counter equals the number of secrets already processed whose PUT
\* was answered 201 or 204 (so each adds exactly one and skipped or failed
\* secrets add nothing), and the summary line reports that number.
C3_CountsSuccessfulPuts ==
    /\ success_count =
          Cardinality({i \in 1..Len(secrets) : i < idx /\ Succeeded(i)})
    /\ \A k \in 1..Len(output) :
          output[k].kind = "summary" =>
             output[k].n = Cardinality({i \in 1..Len(secrets) : Succeeded(i)})

\* C3 witness: a finished run with two successes, a failure and a skip.
C3_Witness ==
    /\ pc = "exited" /\ exitCode = 0 /\ success_count = 2
    /\ \E i \in 1..Len(secrets) : HasLine("fail", i)

\* C4: set_secret returns True exactly when the PUT was answered 201 or
\* 204; for any other status (200 and 202 included) it returns False and
\* the line it printed carries the secret's name, the status and the body.
C4_ClassifiesStatus ==
    pc = "returned" =>
        LET c == calls[Len(calls)]
            line == output[Len(output)]
        IN  /\ c.method = "PUT"
            /\ c.name = SecretNames[idx]
            /\ ~c.raised
            /\ ret <=> (c.response.status_code \in {201, 204})
            /\ ret => line = [kind |-> "ok", name |-> SecretNames[idx]]
            /\ ~ret => line = [kind |-> "fail", name |-> SecretNames[idx],
                               status_code |-> c.response.status_code,
                               text |-> c.response.text]

\* C4 witness: set_secret has returned False for a PUT answered 200.
C4_Witness ==
    /\ pc = "returned" /\ ~ret
    /\ calls[Len(calls)].response.status_code = 200
    /\ output[Len(output)].text = "OK"

\* C5 (as stated): once a secret's PUT was answered with a failure status,
\* a run that has ended has processed every later secret (skipped it or
\* sent its PUT) and has printed the summary line.
C5_FailureRunContinues ==
    \A i \in 1..Len(secrets) :
        (HasLine("fail", i) /\ Terminated) =>
            /\ \A j \in (i + 1)..Len(secrets) :
                  IF Unset(secrets[j])
                  THEN HasLine("skip", j)
                  ELSE CallsFor("GET", j) # {} /\ CallsFor("PUT", j) # {}
            /\ SummaryPrinted

\* C6 (as stated): with the configuration present, a run that has ended
\* has exit status 0 and the summary line is the last line it printed.
C6_ExitsZeroAfterSummary ==
    (ConfigPresent /\ Terminated) =>
        /\ exitCode = 0
        /\ output # << >>
        /\ output[Len(output)].kind = "summary"

\* C7 (as stated): with the configuration present, nothing aborts the run
\* during per-secret processing, and a run that has ended has brought every
\* configured secret to an outcome (skipped, succeeded or failed).
C7_AllSecretsProcessed ==
    ConfigPresent =>
        /\ pc # "crashed"
        /\ Terminated => \A i \in 1..Len(secrets) : HasOutcome(i)

\* C8: a key GET that raised or whose body lacks "key" or "key_id" is the
\* last request of the run: the run is on its way to, or at, the unhandled
\* fault, no PUT is sent for that secret, no failure line is printed for
\* it, no summary is printed and the exit status is never 0.
C8_KeyFetchFaultEndsRun ==
    \A k \in 1..Len(calls) :
        BadFetch(k) =>
            /\ k = Len(calls)
            /\ calls[k].name = SecretNames[idx]
            /\ pc \in {"encrypt", "put", "crashed"}
            /\ calls[k].raised => pc = "crashed"
            /\ CallsFor("PUT", idx) = {}
            /\ ~HasLine("fail", idx)
            /\ ~HasLine("ok", idx)
            /\ ~SummaryPrinted
            /\ exitCode # 0

\* C8 witness: the first secret succeeded, the second one's key body had no
\* "key", and the run ended with the fault while a third was still waiting.
C8_Witness ==
    /\ pc = "crashed" /\ fault = "key" /\ exitCode = 1
    /\ idx = 2 /\ Len(secrets) = 3 /\ ~Unset(secrets[3])
    /\ HasLine("ok", 1)
    /\ Len(calls) = 3

\* C9: the summary is the last line, its denominator is the size of the
\* secrets mapping and its numerator is at most the number of non-empty
\* secrets; with A non-empty, B empty, C unset and every PUT answered 201
\* it is 1/3, with A reported set and B and C reported skipped.
C9_SummaryOverAll ==
    /\ \A k \in 1..Len(output) :
          output[k].kind = "summary" =>
             /\ k = Len(output)
             /\ output[k].total = Len(secrets)
             /\ output[k].n <=
                  Cardinality({i \in 1..Len(secrets) : ~Unset(secrets[i])})
    /\ ( /\ secrets = << "x", "", NONE >>
         /\ \A k \in 1..Len(calls) :
               calls[k].method = "PUT" =>
                  ~calls[k].raised /\ calls[k].response.status_code = 201
         /\ pc = "exited"
         /\ ConfigPresent )
       => /\ output[Len(output)] = [kind |-> "summary", n |-> 1, total |-> 3]
          /\ HasLine("ok", 1) /\ HasLine("skip", 2) /\ HasLine("skip", 3)
          /\ ~HasLine("fail", 1)

\* C9 witness: the scenario's run has ended with its summary printed.
C9_Witness ==
    /\ secrets = << "x", "", NONE >>
    /\ pc = "exited" /\ exitCode = 0
    /\ Len(calls) = 2 /\ calls[2].response.status_code = 201
    /\ output[Len(output)].kind = "summary"

\* C10: every PUT directly follows a GET sent for the same secret, which
\* answered with the key_id the PUT's body carries and the key its
\* ciphertext is sealed for, over that secret's value; each secret has at
\* most one GET and one PUT; and every request is sent only after all
\* earlier secrets have their outcome line.
C10_FetchEncryptSubmitOrder ==
    \A k \in 1..Len(calls) :
        LET i == PosOf(calls[k].name) IN
        /\ Cardinality(CallsFor(calls[k].method, i)) = 1
        /\ \A j \in 1..(i - 1) : HasOutcome(j)
        /\ ~Unset(secrets[i])
        /\ calls[k].method = "PUT" =>
              /\ k > 1
              /\ calls[k - 1].method = "GET"
              /\ calls[k - 1].name = calls[k].name
              /\ ~calls[k - 1].raised
              /\ DOMAIN calls[k - 1].json = {"key", "key_id"}
              /\ calls[k].body.key_id = calls[k - 1].json.key_id
              /\ calls[k].body.encrypted_value.b64.recipient =
                    Base64DecodeKey(calls[k - 1].json.key)
              /\ calls[k].body.encrypted_value.b64.plaintext = secrets[i]

\* C10 witness: two secrets were submitted under two different fetched keys.
C10_Witness ==
    /\ Len(calls) = 4
    /\ calls[2].method = "PUT" /\ calls[4].method = "PUT"
    /\ calls[2].body.key_id = "id2" /\ calls[4].body.key_id = "id1"
    /\ calls[4].body.encrypted_value.b64.recipient = "K1"

====
